---- MODULE Spec2Model ----
(***************************************************************************)
(* album2buy: the reconciliation of a Last.fm top-album list against a     *)
(* Subsonic library.  The model follows the modular version of the program *)
(* (HTTPClient / LastFMClient / SubsonicClient / findMissingAlbums).       *)
(*                                                                         *)
(* Strings are sequences of one-character strings.  An error value is a    *)
(* record whose fields say which format string built its message; the      *)
(* substring tests of categorizeError are evaluated on the markers that    *)
(* message contains.                                                       *)
(***************************************************************************)
EXTENDS Integers, Sequences, FiniteSets, TLC

(***************************************************************************)
(* Program constants                                                       *)
(***************************************************************************)
maxRetries == 3

maxRecommendations == 5

StatusOK == 200

(***************************************************************************)
(* Bounds of the model                                                     *)
(***************************************************************************)
\* longest history of a whole run (main)
MaxAlbums == 2

\* longest history handed to findMissingAlbums when it is called directly
MaxScan == 6

\* largest retry budget of a client built by hand (HTTPClient{maxRetries: n})
MaxBudget == 3

\* resolution of the wall clock: ticks in one second
TicksPerSecond == 2

\* the wall clock is followed for this many ticks
MaxClock == 3

\* longest text handed to cleanString, apart from the examples
MaxLen == 5

\* longest candidate list handed to HasAlbum when it is called directly
MaxCandidates == 2

\* most markers in a message handed to categorizeError when it is called
\* directly
MaxMarkers == 2

\* largest total of a progress bar that is followed with its display goroutine
MaxTotal == 2

\* redraws of a display goroutine that are followed
MaxDraws == 2

(***************************************************************************)
(* Characters and strings                                                  *)
(***************************************************************************)
\* the letters (\p{L}) of the model: the Latin alphabet
Lower ==
  <<"a", "b", "c", "d", "e", "f", "g", "h", "i", "j", "k", "l", "m", "n",
    "o", "p", "q", "r", "s", "t", "u", "v", "w", "x", "y", "z">>

Upper ==
  <<"A", "B", "C", "D", "E", "F", "G", "H", "I", "J", "K", "L", "M", "N",
    "O", "P", "Q", "R", "S", "T", "U", "V", "W", "X", "Y", "Z">>

Range(f) == { f[k] : k \in DOMAIN f }

Letters == Range(Lower) \cup Range(Upper)

\* \d
Digits == {"0", "1", "2", "3", "4", "5", "6", "7", "8", "9"}

\* unicode.IsSpace: what strings.TrimSpace trims
IsSpace(c) == c \in {" ", "\t"}

ToLower(c) ==
  IF c \in Range(Upper)
    THEN Lower[CHOOSE k \in DOMAIN Upper : Upper[k] = c]
    ELSE c

\* strings.EqualFold on the modelled alphabet
EqualFold(s, t) ==
  /\ Len(s) = Len(t)
  /\ \A k \in 1..Len(s) : ToLower(s[k]) = ToLower(t[k])

RECURSIVE TrimLeft(_)
TrimLeft(s) ==
  IF s # <<>> /\ IsSpace(Head(s)) THEN TrimLeft(Tail(s)) ELSE s

RECURSIVE TrimRight(_)
TrimRight(s) ==
  IF s # <<>> /\ IsSpace(s[Len(s)])
    THEN TrimRight(SubSeq(s, 1, Len(s) - 1))
    ELSE s

TrimSpace(s) == TrimRight(TrimLeft(s))

\* regexp `\([^)]*\)$` replaced by "": the leftmost "(" from which no ")"
\* occurs before the ")" that ends the text
BracketStarts(s) ==
  { p \in 1..Len(s) :
      /\ s[p] = "("
      /\ Len(s) > p
      /\ s[Len(s)] = ")"
      /\ \A q \in (p + 1)..(Len(s) - 1) : s[q] # ")" }

Min(S) == CHOOSE m \in S : \A n \in S : m <= n

RECURSIVE StripEveryTrailingBracket(_)
StripEveryTrailingBracket(s) ==
  IF BracketStarts(s) = {} THEN s
  ELSE StripEveryTrailingBracket(
         TrimRight(SubSeq(s, 1, Min(BracketStarts(s)) - 1)))

StripTrailingBracket(s) ==
  IF BracketStarts(s) = {} THEN s ELSE SubSeq(s, 1, Min(BracketStarts(s)) - 1)

RECURSIVE RemoveSpecialButParens(_)
RemoveSpecialButParens(s) ==
  IF s = <<>> THEN <<>>
  ELSE IF Head(s) \in Letters \cup Digits \cup {" ", "(", ")"}
    THEN <<Head(s)>> \o RemoveSpecialButParens(Tail(s))
    ELSE RemoveSpecialButParens(Tail(s))

\* regexp `[^\d\p{L} ]` replaced by ""
RECURSIVE RemoveSpecial(_)
RemoveSpecial(s) ==
  IF s = <<>> THEN <<>>
  ELSE IF Head(s) \in Letters \cup Digits \cup {" "}
    THEN <<Head(s)>> \o RemoveSpecial(Tail(s))
    ELSE RemoveSpecial(Tail(s))

\* regexp `\s+` replaced by " "
RECURSIVE CollapseSpaces(_)
CollapseSpaces(s) ==
  IF s = <<>> THEN <<>>
  ELSE IF IsSpace(Head(s))
    THEN <<" ">> \o CollapseSpaces(TrimLeft(Tail(s)))
    ELSE <<Head(s)>> \o CollapseSpaces(Tail(s))

cleanString(s) ==
  TrimSpace(CollapseSpaces(RemoveSpecial(StripTrailingBracket(TrimSpace(s)))))

(***************************************************************************)
(* Records of the two services                                             *)
(***************************************************************************)
\* Album{Name, Artist.Name, URL}: the Last.fm records of the model
Album1 == [Name |-> <<"a", " ", "(", "x", ")">>, Artist |-> <<"b">>, URL |-> "u1"]

Album2 == [Name |-> <<"B">>, Artist |-> <<"a">>, URL |-> "u2"]

AlbumPool == {Album1, Album2}

URLs == {"u1", "u2"}

\* Subsonic candidates {Title, Artist}
Cand1 == [Title |-> <<"A">>, Artist |-> <<"B", " ">>]

Cand2 == [Title |-> <<"b">>, Artist |-> <<"a">>]

Cand3 == [Title |-> <<"a">>, Artist |-> <<"a">>]

\* what a search3 answer may list
Libraries == {<<>>, <<Cand1>>, <<Cand3, Cand2>>}

RECURSIVE SeqsUpTo(_, _)
SeqsUpTo(S, n) ==
  IF n = 0 THEN {<<>>}
  ELSE LET shorter == SeqsUpTo(S, n - 1)
       IN  shorter \cup { Append(q, e) : q \in { r \in shorter : Len(r) = n - 1 }, e \in S }

(***************************************************************************)
(* HTTP responses and errors                                               *)
(***************************************************************************)
\* A payload is malformed JSON, well-formed JSON without the expected
\* envelope, or the expected envelope around a list.
Payload(kind, list) == [kind |-> kind, list |-> list]

NoPayload == Payload("none", <<>>)

\* *http.Response: nil, or a status with a body that is open or closed
Response(status, payload, open) ==
  [nil |-> FALSE, status |-> status, payload |-> payload, open |-> open]

NilResp == [nil |-> TRUE, status |-> 0, payload |-> NoPayload, open |-> FALSE]

\* error values; text is the set of categorizeError markers the message
\* contains, retries the number printed by "after %d retries" (0 in a message
\* that prints none)
Error(kind, code, text) ==
  [kind |-> kind, code |-> code, text |-> text, retries |-> 0]

NilErr == Error("nil", 0, {})

\* context.DeadlineExceeded: "context deadline exceeded"
CtxErr == Error("ctx", 0, {})

\* markers of the decimal status in "request failed with status %d after %d retries"
StatusMarkers(code) ==
  IF code = 429 THEN {"429"}
  ELSE IF code = 500 THEN {"500"}
  ELSE IF code = 502 THEN {"502"}
  ELSE IF code = 503 THEN {"503"}
  ELSE IF code = 504 THEN {"504"}
  ELSE {}

\* url.Error of client.Do: Get "<request URL>": <cause>
TransportErr(cause, urlText) ==
  Error("transport", 0,
        urlText \cup (IF cause = "refused" THEN {"dial", "connection"} ELSE {}))

\* json.Unmarshal into the envelope struct: an error on malformed JSON, the
\* zero value (no records) when the envelope is absent
UnmarshalFails(payload) == payload.kind = "malformed"

Unmarshal(payload) == IF payload.kind = "ok" THEN payload.list ELSE <<>>

(***************************************************************************)
(* categorizeError                                                         *)
(***************************************************************************)
RateLimitMarkers == {"429", "rate limit", "too many requests"}

ServerErrorMarkers ==
  {"500", "502", "503", "504", "internal server error", "bad gateway",
   "service unavailable", "gateway timeout"}

NetworkMarkers == {"connection", "timeout", "network", "dial", "no such host"}

CategoryServerFirst(err) ==
  IF err.text \cap ServerErrorMarkers # {} THEN "ServerError"
  ELSE IF err.text \cap RateLimitMarkers # {} THEN "RateLimit"
  ELSE IF err.text \cap NetworkMarkers # {} THEN "Network"
  ELSE "Other"

\* lines 476-502: the first group of markers the message contains
Category(err) ==
  IF err.text \cap RateLimitMarkers # {} THEN "RateLimit"
  ELSE IF err.text \cap ServerErrorMarkers # {} THEN "ServerError"
  ELSE IF err.text \cap NetworkMarkers # {} THEN "Network"
  ELSE "Other"

categorizeErrorButOther(err, stats) ==
  LET c == Category(err)
  IN  IF c = "Other" THEN stats ELSE [stats EXCEPT ![c] = @ + 1]

categorizeError(err, stats) ==
  LET c == Category(err) IN [stats EXCEPT ![c] = @ + 1]

ZeroStats ==
  [Total |-> 0, Successful |-> 0, Failed |-> 0,
   RateLimit |-> 0, ServerError |-> 0, Network |-> 0, Other |-> 0]

(***************************************************************************)
(* isURLIgnored and the matcher of HasAlbum                                *)
(***************************************************************************)
isURLIgnoredNever(url, ignored) == FALSE

isURLIgnored(url, ignored) == url \in ignored

MatchesRawRecord(a, album) ==
  /\ EqualFold(cleanString(a.Title), album.Name)
  /\ EqualFold(cleanString(a.Artist), album.Artist)

\* lines 243-244
Matches(a, album) ==
  /\ EqualFold(cleanString(a.Title), cleanString(album.Name))
  /\ EqualFold(cleanString(a.Artist), cleanString(album.Artist))

AnyMatch(candidates, album) ==
  \E k \in 1..Len(candidates) : Matches(candidates[k], album)

(***************************************************************************)
(* State                                                                   *)
(***************************************************************************)
VARIABLES
  cfgOK,        \* loadConfig finds every required setting
  history,      \* the records the Last.fm service holds for the user
  ignoreFile,   \* the URLs listed in IGNORE_FILE
  budget,       \* HTTPClient.maxRetries
  ctxDone,      \* ctx.Done() is closed
  firedAt,      \* <<pc, hpc>> at the moment ctx fired
  pc,           \* position of the main goroutine
  albums,       \* the slice findMissingAlbums scans
  ignoredURLs,  \* loadIgnoredURLs()
  missing,      \* the result slice
  errorStats,   \* *ErrorStats
  i,            \* records the range loop has taken so far
  spinner,      \* the spinner of main
  progress,     \* the progress bar of findMissingAlbums
  hpc,          \* position inside DoWithRetry
  ri,           \* loop variable i of DoWithRetry
  attempts,     \* client.Do calls of the current DoWithRetry call
  resp,         \* resp of DoWithRetry, its first result once it has returned
  err,          \* err of DoWithRetry, its second result once it has returned
  lastDo,       \* what the latest client.Do of the call returned at line 103
  openBodies,   \* response bodies received and not closed so far
  reqURL,       \* categorizeError markers occurring in the request URL
  arg,          \* argument of a function that is called on its own
  result,       \* what that function returned
  now,          \* the wall clock, in ticks
  salts,        \* the salt of every SearchAlbum call of the run, in call order
  dpc,          \* position of the display goroutine of an indicator
  mu,           \* who holds the mutex of that indicator
  stopChan,     \* its stop channel, open or closed
  drawn,        \* redraws its display goroutine has printed
  sdpc,         \* position of the display goroutine of the spinner of main
  smu,          \* who holds the mutex of the spinner
  sstopChan,    \* the stop channel of the spinner, open or closed
  sdrawn,       \* redraws the display goroutine of the spinner has printed
  out           \* what the run has printed, in order

vars ==
  <<cfgOK, history, ignoreFile, budget, ctxDone, firedAt, pc, albums,
    ignoredURLs, missing, errorStats, i, spinner, progress, hpc, ri,
    attempts, resp, err, lastDo, openBodies, reqURL, arg, result, now, salts,
    dpc, mu, stopChan, drawn, sdpc, smu, sstopChan, sdrawn, out>>

inputVars == <<cfgOK, history, ignoreFile, budget>>

clockVars == <<now, salts>>

callVars == <<arg, result>>

spinVars == <<sdpc, smu, sstopChan, sdrawn>>

displayVars == <<dpc, mu, stopChan, drawn, spinVars>>

scanVars == <<albums, ignoredURLs, missing, errorStats, i, progress>>

httpVars == <<hpc, ri, attempts, resp, err, lastDo, openBodies, reqURL>>

\* ProgressIndicator fields the main goroutine writes
NewIndicator(showBar, total) ==
  [active |-> FALSE, current |-> 0, total |-> total, showBar |-> showBar,
   starts |-> 0, stops |-> 0]

Start(p) == [p EXCEPT !.active = TRUE, !.starts = @ + 1]

Update(p, current) == [p EXCEPT !.current = current]

StopNot(p) == p

Stop(p) == [p EXCEPT !.active = FALSE, !.stops = @ + 1]

(***************************************************************************)
(* HTTPClient.DoWithRetry                                                  *)
(***************************************************************************)
\* lines 80-95: the budget of a client built by NewHTTPClient
NewHTTPClient == [maxRetries |-> maxRetries]

IsSuccessAnyResponse(r, e) == e = NilErr /\ ~r.nil

\* line 105: the attempt ends the call with success
IsSuccess(r, e) == e = NilErr /\ ~r.nil /\ r.status = StatusOK

WaitFollowsLast(k, n) == k < n

\* line 113: a wait follows the failed attempt number k (counted from 0)
WaitFollows(k, n) == k < n - 1

SelectCaseTimerOnly(done) == "timer"

\* lines 114-118: the case the select takes; the timer case is taken only
\* when the delay elapses with ctx still open
SelectCase(done) == IF done THEN "ctx" ELSE "timer"

CloseBodyNever(r) == r

\* lines 109-111
CloseBody(r) == IF r.nil THEN r ELSE [r EXCEPT !.open = FALSE]

\* 1 when r is a response whose body is open, else 0
Open(r) == IF ~r.nil /\ r.open THEN 1 ELSE 0

\* no client.Do has returned yet
NoOutcome == [resp |-> NilResp, err |-> NilErr]

ExhaustedErrOfEarlier(r, e) ==
  [(IF resp.nil THEN Error("noresp", 0, err.text)
    ELSE Error("status", resp.status, StatusMarkers(resp.status)))
   EXCEPT !.retries = budget]

\* lines 122-126: the error after the loop, built from the resp and err that
\* line 103 assigned last and from h.maxRetries
ExhaustedErr(r, e) ==
  [(IF r.nil THEN Error("noresp", 0, e.text)
    ELSE Error("status", r.status, StatusMarkers(r.status)))
   EXCEPT !.retries = budget]

\* what client.Do can give for one attempt in a world of servers w: a 200
\* with one of w's payloads, one of w's other statuses, or one of w's
\* transport failures; once ctx is done, only the failure ctx causes
World(payloads, statuses, causes) ==
  [payloads |-> payloads, statuses |-> statuses, causes |-> causes]

DoOutcomes(w) ==
  IF ctxDone THEN { [resp |-> NilResp, err |-> TransportErr("ctx", reqURL)] }
  ELSE { [resp |-> Response(StatusOK, p, TRUE), err |-> NilErr] : p \in w.payloads }
       \cup { [resp |-> Response(st, NoPayload, TRUE), err |-> NilErr] : st \in w.statuses }
       \cup { [resp |-> NilResp, err |-> TransportErr(c, reqURL)] : c \in w.causes }

\* the call: the locals, and the first client.Do unless the budget is 0
BeginDoWithRetry(url) ==
  /\ reqURL' = url
  /\ ri' = 0
  /\ resp' = NilResp
  /\ lastDo' = NoOutcome
  /\ openBodies' = openBodies
  /\ IF budget > 0
       THEN /\ hpc' = "do"
            /\ attempts' = 1
            /\ err' = NilErr
       ELSE /\ hpc' = "ret"
            /\ attempts' = 0
            /\ err' = ExhaustedErr(NilResp, NilErr)

\* client.Do returns o: lines 103-113 and, after the last attempt, 122-126
AttemptReturn(o) ==
  /\ hpc = "do"
  /\ IF IsSuccess(o.resp, o.err)
       THEN /\ hpc' = "ret"
            /\ resp' = o.resp
            /\ err' = NilErr
       ELSE IF WaitFollows(ri, budget)
         THEN /\ hpc' = "wait"
              /\ resp' = CloseBody(o.resp)
              /\ err' = o.err
         ELSE /\ hpc' = "ret"
              /\ resp' = CloseBody(o.resp)
              /\ err' = ExhaustedErr(o.resp, o.err)
  /\ lastDo' = o
  /\ openBodies' = openBodies + Open(resp')
  /\ UNCHANGED <<ri, attempts, reqURL>>

\* the select of lines 114-118 completes
WaitSelect ==
  /\ hpc = "wait"
  /\ IF SelectCase(ctxDone) = "ctx"
       THEN /\ hpc' = "ret"
            /\ resp' = NilResp
            /\ err' = CtxErr
            /\ UNCHANGED <<ri, attempts>>
       ELSE /\ hpc' = "do"
            /\ ri' = ri + 1
            /\ attempts' = attempts + 1
            /\ UNCHANGED <<resp, err>>
  /\ UNCHANGED <<lastDo, openBodies, reqURL, inputVars, displayVars, callVars, clockVars, ctxDone, firedAt, pc, scanVars,
                 spinner, out>>

\* time.Now().Format("20060102150405") of line 198: the time, cut to whole
\* seconds
Format(t) == t \div TicksPerSecond

\* the deadline of ctx passes
NotFired == <<"", "">>

Running == pc \notin {"done", "exit1", "fma_ret", "test_done"}

Cancel ==
  /\ ~ctxDone
  /\ Running
  /\ ctxDone' = TRUE
  /\ firedAt' = <<pc, hpc>>
  /\ UNCHANGED <<inputVars, displayVars, callVars, clockVars, pc, scanVars, spinner, httpVars, out>>

\* the wall clock advances
Tick ==
  /\ Running
  /\ now < MaxClock
  /\ now' = now + 1
  /\ UNCHANGED <<inputVars, displayVars, callVars, salts, ctxDone, firedAt, pc, scanVars, spinner,
                 httpVars, out>>

(***************************************************************************)
(* LastFMClient.GetTopAlbums, SubsonicClient.SearchAlbum and HasAlbum,     *)
(* from the return of DoWithRetry on                                       *)
(***************************************************************************)
\* fmt.Errorf("... request failed: %w", err): the message keeps err's text
Wrap(e) == e

ParseErr == Error("parse", 0, {})

AfterDoWithRetryErrorAgain == "again"

\* lines 156-158 and 216-218: the client returns the error of DoWithRetry,
\* it does not call DoWithRetry again
AfterDoWithRetryError == "return"

\* lines 155-172 and 215-232: the records and the error of the client call
ClientResult(r, e) ==
  IF e # NilErr THEN [list |-> <<>>, err |-> Wrap(e)]
  ELSE IF UnmarshalFails(r.payload) THEN [list |-> <<>>, err |-> ParseErr]
  ELSE [list |-> Unmarshal(r.payload), err |-> NilErr]

\* lines 237-248
HasAlbum(r, e, album) ==
  LET found == ClientResult(r, e)
  IN  IF found.err # NilErr THEN [exists |-> FALSE, err |-> found.err]
      ELSE [exists |-> AnyMatch(found.list, album), err |-> NilErr]

\* the client call returns: its deferred resp.Body.Close(), registered when
\* DoWithRetry gave no error (lines 159, 219), has run and the locals of the
\* DoWithRetry call are gone
EndDoWithRetry ==
  /\ hpc' = "idle"
  /\ ri' = 0
  /\ attempts' = 0
  /\ resp' = NilResp
  /\ err' = NilErr
  /\ lastDo' = NoOutcome
  /\ openBodies' = IF err = NilErr THEN openBodies - Open(resp) ELSE openBodies
  /\ reqURL' = {}

\* markers that the salt, the token or the query of a search URL may contain
URLTexts == {{}, {"429"}}

FetchPayloads ==
  {Payload("ok", history), Payload("malformed", <<>>), Payload("noenvelope", <<>>)}

LookupPayloads ==
  {Payload("ok", lib) : lib \in Libraries}
    \cup {Payload("malformed", <<>>), Payload("noenvelope", <<>>)}

FailStatuses == {404, 429, 503}

\* the Last.fm service and the Subsonic server of a whole run
LastFM == World(FetchPayloads, FailStatuses, {"refused"})

Subsonic == World(LookupPayloads, FailStatuses, {"refused"})

\* the Subsonic server of the long scans: it answers a search with nothing,
\* with both albums of the pool, or with a 503
ScanSubsonic ==
  World({Payload("ok", <<>>), Payload("ok", <<Cand1, Cand2>>)}, {503}, {})

(***************************************************************************)
(* findMissingAlbums                                                       *)
(***************************************************************************)
CapReachedLate(m) == Len(m) > maxRecommendations

\* line 440
CapReached(m) == Len(m) >= maxRecommendations

CollectFound(m, album, exists) == IF exists THEN Append(m, album) ELSE m

CollectOnce(m, album, exists) ==
  IF ~exists /\ album \notin Range(m) THEN Append(m, album) ELSE m

\* lines 438-439
Collect(m, album, exists) == IF ~exists THEN Append(m, album) ELSE m

AfterLookupErrorBreak == "report"

\* line 434: the continue after a failed lookup
AfterLookupError == "scan"

NextIndexSame(k) == k

\* line 417: the range loop goes on to the next record
NextIndex(k) == k + 1

\* lines 409-415
FmaEntry ==
  /\ pc = "fma"
  /\ missing' = <<>>
  /\ ignoredURLs' = ignoreFile
  /\ errorStats' = ZeroStats
  /\ progress' = Start(NewIndicator(TRUE, Len(albums)))
  /\ i' = 0
  /\ pc' = "scan"
  /\ UNCHANGED <<inputVars, displayVars, callVars, clockVars, ctxDone, firedAt, albums, spinner, httpVars, out>>

\* lines 417-425: the loop takes the next record, or ends; the call of
\* HasAlbum runs SearchAlbum up to its call of DoWithRetry (lines 198-215)
ScanStep(urlTexts) ==
  /\ pc = "scan"
  /\ IF i = Len(albums)
       THEN /\ pc' = "report"
            /\ UNCHANGED <<scanVars, httpVars, salts>>
       ELSE LET album == albums[i + 1]
            IN  /\ progress' = Update(progress, i + 1)
                /\ IF isURLIgnored(album.URL, ignoredURLs)
                     THEN /\ i' = NextIndex(i)
                          /\ pc' = "scan"
                          /\ UNCHANGED <<errorStats, httpVars, salts>>
                     ELSE /\ errorStats' = [errorStats EXCEPT !.Total = @ + 1]
                          /\ salts' = Append(salts, Format(now))
                          /\ \E u \in urlTexts : BeginDoWithRetry(u)
                          /\ pc' = "lookup"
                          /\ UNCHANGED i
                /\ UNCHANGED <<albums, ignoredURLs, missing>>
  /\ UNCHANGED <<inputVars, displayVars, callVars, now, ctxDone, firedAt, spinner, out>>

\* an attempt of the lookup in progress returns
LookupAttempt(w) ==
  /\ pc = "lookup"
  /\ \E o \in DoOutcomes(w) : AttemptReturn(o)
  /\ UNCHANGED <<inputVars, displayVars, callVars, clockVars, ctxDone, firedAt, pc, scanVars, spinner, out>>

\* lines 425-443: HasAlbum returns and the loop body finishes
LookupReturn ==
  /\ pc = "lookup"
  /\ hpc = "ret"
  /\ IF err # NilErr /\ AfterDoWithRetryError = "again"
       THEN /\ BeginDoWithRetry(reqURL)
            /\ UNCHANGED <<pc, errorStats, missing, i>>
       ELSE /\ LET album == albums[i + 1]
                   res == HasAlbum(resp, err, album)
               IN  IF res.err # NilErr
                     THEN /\ errorStats' =
                               categorizeError(res.err,
                                               [errorStats EXCEPT !.Failed = @ + 1])
                          /\ missing' = missing
                          /\ i' = IF AfterLookupError = "scan"
                                    THEN NextIndex(i) ELSE i
                          /\ pc' = AfterLookupError
                     ELSE /\ errorStats' = [errorStats EXCEPT !.Successful = @ + 1]
                          /\ missing' = Collect(missing, album, res.exists)
                          /\ IF ~res.exists /\ CapReached(missing')
                               THEN /\ pc' = "report"
                                    /\ i' = i
                               ELSE /\ pc' = "scan"
                                    /\ i' = NextIndex(i)
            /\ EndDoWithRetry
  /\ UNCHANGED <<inputVars, displayVars, callVars, clockVars, ctxDone, firedAt, albums, ignoredURLs, progress,
                 spinner, out>>

StatsLinesAlways(st) ==
  <<"stats">>
    \o (IF st.RateLimit > 0 THEN <<"hint RateLimit">> ELSE <<>>)
    \o (IF st.ServerError > 0 THEN <<"hint ServerError">> ELSE <<>>)
    \o (IF st.Network > 0 THEN <<"hint Network">> ELSE <<>>)
    \o (IF st.Other > 0 THEN <<"hint Other">> ELSE <<>>)

\* lines 447-466: the statistics summary and the hints
StatsLines(st) ==
  IF st.Failed > 0
    THEN <<"stats">>
           \o (IF st.RateLimit > 0 THEN <<"hint RateLimit">> ELSE <<>>)
           \o (IF st.ServerError > 0 THEN <<"hint ServerError">> ELSE <<>>)
           \o (IF st.Network > 0 THEN <<"hint Network">> ELSE <<>>)
           \o (IF st.Other > 0 THEN <<"hint Other">> ELSE <<>>)
    ELSE <<>>

Report ==
  /\ pc = "report"
  /\ out' = out \o StatsLines(errorStats)
  /\ pc' = "defer"
  /\ UNCHANGED <<inputVars, displayVars, callVars, clockVars, ctxDone, firedAt, scanVars, spinner, httpVars>>

\* line 468 and the deferred progress.Stop() of line 415
FmaReturn ==
  /\ pc = "defer"
  /\ progress' = Stop(progress)
  /\ pc' = "fma_ret"
  /\ UNCHANGED <<inputVars, displayVars, callVars, clockVars, ctxDone, firedAt, albums, ignoredURLs, missing,
                 errorStats, i, spinner, httpVars, out>>

(***************************************************************************)
(* main                                                                    *)
(***************************************************************************)
\* lines 339-350: loadConfig, the clients, the spinner, the call of GetTopAlbums
MainStart ==
  /\ pc = "main"
  /\ IF ~cfgOK
       THEN /\ out' = Append(out, "missing config")
            /\ pc' = "exit1"
            /\ UNCHANGED <<spinner, httpVars>>
       ELSE /\ spinner' = Start(spinner)
            /\ BeginDoWithRetry({})
            /\ pc' = "fetch"
            /\ out' = out
  /\ UNCHANGED <<inputVars, displayVars, callVars, clockVars, ctxDone, firedAt, scanVars>>

\* an attempt of the fetch returns
FetchAttempt ==
  /\ pc = "fetch"
  /\ \E o \in DoOutcomes(LastFM) : AttemptReturn(o)
  /\ UNCHANGED <<inputVars, displayVars, callVars, clockVars, ctxDone, firedAt, pc, scanVars, spinner, out>>

AfterFetchErrorGoOn == "fma"

\* lines 354-357: os.Exit(1) after a failed fetch
AfterFetchError == "exit1"

\* lines 350-358: GetTopAlbums returns, the spinner stops, the error exit
FetchReturn ==
  /\ pc = "fetch"
  /\ hpc = "ret"
  /\ IF err # NilErr /\ AfterDoWithRetryError = "again"
       THEN /\ BeginDoWithRetry(reqURL)
            /\ UNCHANGED <<pc, spinner, albums, out>>
       ELSE /\ LET got == ClientResult(resp, err)
               IN  /\ spinner' = Stop(spinner)
                   /\ IF got.err # NilErr
                        THEN /\ out' = Append(out, "fetch error")
                             /\ pc' = AfterFetchError
                             /\ albums' = albums
                        ELSE /\ albums' = got.list
                             /\ pc' = "fma"
                             /\ out' = out
            /\ EndDoWithRetry
  /\ UNCHANGED <<inputVars, displayVars, callVars, clockVars, ctxDone, firedAt, ignoredURLs, missing, errorStats,
                 i, progress>>

\* line 359 and lines 530-546
printRecommendation(m) ==
  IF Len(m) = 0 THEN <<"all exist">> ELSE <<"recommended">>

MainPrint ==
  /\ pc = "fma_ret"
  /\ out' = out \o printRecommendation(missing)
  /\ pc' = "done"
  /\ UNCHANGED <<inputVars, displayVars, callVars, clockVars, ctxDone, firedAt, scanVars, spinner, httpVars>>

(***************************************************************************)
(* A direct call of DoWithRetry on a client built by hand                  *)
(***************************************************************************)
DirectCall ==
  /\ pc = "test"
  /\ \E u \in URLTexts : BeginDoWithRetry(u)
  /\ pc' = "direct"
  /\ UNCHANGED <<inputVars, displayVars, callVars, clockVars, ctxDone, firedAt, scanVars, spinner, out>>

DirectAttempt ==
  /\ pc = "direct"
  /\ \E o \in DoOutcomes(Subsonic) : AttemptReturn(o)
  /\ UNCHANGED <<inputVars, displayVars, callVars, clockVars, ctxDone, firedAt, pc, scanVars, spinner, out>>

DirectReturn ==
  /\ pc = "direct"
  /\ hpc = "ret"
  /\ pc' = "test_done"
  /\ UNCHANGED <<inputVars, displayVars, callVars, clockVars, ctxDone, firedAt, scanVars, spinner, httpVars, out>>

(***************************************************************************)
(* cleanString, categorizeError and HasAlbum called on their own           *)
(***************************************************************************)
\* the inputs of TestCleanString
TestAlbum ==
  <<"T", "e", "s", "t", " ", "A", "l", "b", "u", "m">>

TestAlbumDeluxe ==
  <<"T", "e", "s", "t", " ", "A", "l", "b", "u", "m", " ", "(", "D", "e",
    "l", "u", "x", "e", " ", "E", "d", "i", "t", "i", "o", "n", ")">>

TestAlbumRemaster ==
  <<"T", "e", "s", "t", " ", "A", "l", "b", "u", "m", " ", "(", "2", "0",
    "2", "1", " ", "R", "e", "m", "a", "s", "t", "e", "r", ")">>

TestAlbumBonusTracks ==
  <<"T", "e", "s", "t", " ", "A", "l", "b", "u", "m", " ", "[", "B", "o",
    "n", "u", "s", " ", "T", "r", "a", "c", "k", "s", "]">>

TestAlbumSpaces ==
  <<"T", "e", "s", "t", " ", " ", "A", "l", "b", "u", "m", " ", " ", " ">>

TestAlbumSpecial ==
  <<"T", "e", "s", "t", "-", "A", "l", "b", "u", "m", "&", "S", "p", "e",
    "c", "i", "a", "l">>

TestAlbum123 ==
  <<"T", "e", "s", "t", "@", "A", "l", "b", "u", "m", "#", "1", "2", "3">>

TestAlbumPadded ==
  <<" ", " ", " ", "T", "e", "s", "t", " ", "A", "l", "b", "u", "m", " ",
    " ", " ">>

TestAlbumLiveBonus ==
  <<"T", "e", "s", "t", " ", "A", "l", "b", "u", "m", " ", "(", "L", "i",
    "v", "e", ")", " ", "(", "B", "o", "n", "u", "s", ")">>

CleanExamples ==
  {TestAlbum, TestAlbumDeluxe, TestAlbumRemaster, TestAlbumBonusTracks,
   TestAlbumSpaces, TestAlbumSpecial, TestAlbum123, TestAlbumPadded,
   TestAlbumLiveBonus}

\* a letter, the two kinds of white space, the parentheses and a special
\* character
CleanAlphabet == {"a", " ", "\t", "(", ")", "-"}

CleanInputs == SeqsUpTo(CleanAlphabet, MaxLen) \cup CleanExamples

\* cleanString(arg)
CleanCall ==
  /\ pc = "clean"
  /\ result' = cleanString(arg)
  /\ pc' = "cleaned"
  /\ UNCHANGED <<inputVars, displayVars, arg, clockVars, ctxDone, firedAt, scanVars,
                 spinner, httpVars, out>>

\* cleanString of what cleanString returned
CleanAgain ==
  /\ pc = "cleaned"
  /\ result' = cleanString(result)
  /\ pc' = "recleaned"
  /\ UNCHANGED <<inputVars, displayVars, arg, clockVars, ctxDone, firedAt, scanVars,
                 spinner, httpVars, out>>

(***************************************************************************)
(* A ProgressIndicator with its display goroutine: the engine side as      *)
(* findMissingAlbums and main drive it, the goroutine of Start step by     *)
(* step                                                                    *)
(***************************************************************************)
RedrawsAlways(p) == TRUE

RedrawsNever(p) == FALSE

UnlockNot(m) == m

\* p.mu.Unlock() of lines 301 and 316
Unlock(m) == "free"

\* line 300: the tick goes on to redraw
Redraws(p) == p.active

\* NewSpinner (lines 264-270) or NewProgressBar (lines 273-280)
PiNew ==
  /\ pc = "pi_new"
  /\ \/ progress' = NewIndicator(FALSE, 0)
     \/ \E n \in 0..MaxTotal : progress' = NewIndicator(TRUE, n)
  /\ pc' = "pi_made"
  /\ UNCHANGED <<inputVars, callVars, clockVars, displayVars, ctxDone,
                 firedAt, albums, ignoredURLs,
                 missing, errorStats, i, spinner, httpVars, out>>

\* Start (lines 282-287): the flag under the mutex, then the go statement
PiStart ==
  /\ pc = "pi_made"
  /\ mu = "free"
  /\ progress' = Start(progress)
  /\ dpc' = "select"
  /\ pc' = "pi_run"
  /\ UNCHANGED <<inputVars, spinVars, callVars, clockVars, mu, stopChan, drawn,
                 ctxDone, firedAt, albums,
                 ignoredURLs, missing, errorStats, i, spinner, httpVars, out>>

\* the engine calls Update(current + 1), as line 418 does, and comes to
\* p.mu.Lock() of line 323
PiUpdateCall ==
  /\ pc = "pi_run"
  /\ progress.showBar
  /\ progress.current < progress.total
  /\ pc' = "pi_update"
  /\ UNCHANGED <<inputVars, callVars, clockVars, displayVars, ctxDone,
                 firedAt, scanVars, spinner, httpVars, out>>

\* Update (lines 323-325): the mutex taken, current written, the mutex
\* released, and Update returns
PiUpdate ==
  /\ pc = "pi_update"
  /\ mu = "free"
  /\ progress' = Update(progress, progress.current + 1)
  /\ pc' = "pi_run"
  /\ UNCHANGED <<inputVars, callVars, clockVars, displayVars, ctxDone,
                 firedAt, albums,
                 ignoredURLs, missing, errorStats, i, spinner, httpVars, out>>

\* the engine calls Stop and comes to p.mu.Lock() of line 330
PiStopCall ==
  /\ pc \in {"pi_run", "pi_reported"}
  /\ pc' = "pi_stop"
  /\ UNCHANGED <<inputVars, callVars, clockVars, displayVars, ctxDone,
                 firedAt, scanVars, spinner, httpVars, out>>

\* Stop, lines 330-332: the flag under the mutex
PiStopFlag ==
  /\ pc = "pi_stop"
  /\ mu = "free"
  /\ progress' = Stop(progress)
  /\ pc' = "pi_close"
  /\ UNCHANGED <<inputVars, callVars, clockVars, displayVars, ctxDone,
                 firedAt, albums, ignoredURLs,
                 missing, errorStats, i, spinner, httpVars, out>>

\* Stop, line 334: close(p.stopChan)
PiStopClose ==
  /\ pc = "pi_close"
  /\ stopChan' = "closed"
  /\ pc' = "pi_clear"
  /\ UNCHANGED <<inputVars, spinVars, callVars, clockVars, dpc, mu, drawn, ctxDone,
                 firedAt, scanVars,
                 spinner, httpVars, out>>

\* Stop, line 335: the line is cleared and Stop returns
PiStopReturn ==
  /\ pc = "pi_clear"
  /\ pc' = "pi_stopped"
  /\ UNCHANGED <<inputVars, callVars, clockVars, displayVars, ctxDone,
                 firedAt, scanVars, spinner,
                 httpVars, out>>

\* the select of lines 295-297 takes the stop case
DisplayStopCase ==
  /\ dpc = "select"
  /\ stopChan = "closed"
  /\ dpc' = "exited"
  /\ UNCHANGED <<inputVars, spinVars, callVars, clockVars, mu, stopChan, drawn,
                 ctxDone, firedAt, pc,
                 scanVars, spinner, httpVars, out>>

\* the select takes the ticker case (line 298) and goes to p.mu.Lock()
DisplayTick ==
  /\ dpc = "select"
  /\ drawn < MaxDraws
  /\ dpc' = "lock"
  /\ UNCHANGED <<inputVars, spinVars, callVars, clockVars, mu, stopChan, drawn,
                 ctxDone, firedAt, pc,
                 scanVars, spinner, httpVars, out>>

\* line 299: p.mu.Lock() returns
DisplayLock ==
  /\ dpc = "lock"
  /\ mu = "free"
  /\ mu' = "display"
  /\ dpc' = "locked"
  /\ UNCHANGED <<inputVars, spinVars, callVars, clockVars, stopChan, drawn, ctxDone,
                 firedAt, pc, scanVars,
                 spinner, httpVars, out>>

\* lines 300-315: the test of the flag, and the redraw
DisplayDraw ==
  /\ dpc = "locked"
  /\ IF Redraws(progress)
       THEN /\ drawn' = drawn + 1
            /\ dpc' = "drawn"
            /\ mu' = mu
       ELSE /\ mu' = Unlock(mu)
            /\ dpc' = "exited"
            /\ drawn' = drawn
  /\ UNCHANGED <<inputVars, spinVars, callVars, clockVars, stopChan, ctxDone, firedAt,
                 pc, scanVars, spinner,
                 httpVars, out>>

\* line 316: p.mu.Unlock() after the redraw
DisplayUnlock ==
  /\ dpc = "drawn"
  /\ mu' = Unlock(mu)
  /\ dpc' = "select"
  /\ UNCHANGED <<inputVars, spinVars, callVars, clockVars, stopChan, drawn, ctxDone,
                 firedAt, pc, scanVars,
                 spinner, httpVars, out>>

(***************************************************************************)
(* The indicators of a run: main's use of its spinner around GetTopAlbums  *)
(* (lines 348-351), with the display goroutine of the spinner, before the  *)
(* bar of findMissingAlbums                                                *)
(***************************************************************************)
barVars == <<dpc, mu, stopChan, drawn>>

\* lines 348-350: NewSpinner, spinner.Start(), and GetTopAlbums is called
SpStart ==
  /\ pc = "sp_new"
  /\ smu = "free"
  /\ spinner' = Start(spinner)
  /\ sdpc' = "select"
  /\ pc' = "sp_fetch"
  /\ UNCHANGED <<inputVars, callVars, clockVars, barVars, smu, sstopChan,
                 sdrawn, ctxDone, firedAt, scanVars, httpVars, out>>

\* line 351: GetTopAlbums has returned, main calls spinner.Stop() and comes
\* to p.mu.Lock() of line 330
SpStopCall ==
  /\ pc = "sp_fetch"
  /\ pc' = "sp_stop"
  /\ UNCHANGED <<inputVars, callVars, clockVars, displayVars, ctxDone,
                 firedAt, scanVars, spinner, httpVars, out>>

\* Stop, lines 330-332, on the spinner
SpStopFlag ==
  /\ pc = "sp_stop"
  /\ smu = "free"
  /\ spinner' = Stop(spinner)
  /\ pc' = "sp_close"
  /\ UNCHANGED <<inputVars, callVars, clockVars, displayVars, ctxDone,
                 firedAt, scanVars, httpVars, out>>

\* Stop, line 334, on the spinner
SpStopClose ==
  /\ pc = "sp_close"
  /\ sstopChan' = "closed"
  /\ pc' = "sp_clear"
  /\ UNCHANGED <<inputVars, callVars, clockVars, barVars, sdpc, smu, sdrawn,
                 ctxDone, firedAt, scanVars, spinner, httpVars, out>>

\* Stop, line 335, on the spinner: Stop returns
SpStopReturn ==
  /\ pc = "sp_clear"
  /\ pc' = "sp_stopped"
  /\ UNCHANGED <<inputVars, callVars, clockVars, displayVars, ctxDone,
                 firedAt, scanVars, spinner, httpVars, out>>

\* lines 353-358 and 413: main examines the error of the fetch and exits,
\* or calls findMissingAlbums, which makes its bar for the records it got
SpExamine ==
  /\ pc = "sp_stopped"
  /\ \/ /\ pc' = AfterFetchError
        /\ out' = Append(out, "fetch error")
        /\ progress' = progress
     \/ /\ \E n \in 0..MaxTotal : progress' = NewIndicator(TRUE, n)
        /\ pc' = "pi_made"
        /\ out' = out
  /\ UNCHANGED <<inputVars, callVars, clockVars, displayVars, ctxDone,
                 firedAt, albums, ignoredURLs, missing, errorStats, i,
                 spinner, httpVars>>

\* counters of a scan in which a lookup has failed
FailedScans ==
  { [ZeroStats EXCEPT !.Total = 1, !.Failed = 1, !.Network = 1],
    [ZeroStats EXCEPT !.Total = 2, !.Successful = 1, !.Failed = 1,
                      !.ServerError = 1] }

\* lines 447-466, when a lookup has failed: findMissingAlbums is through
\* its loop and prints the statistics; its deferred Stop has not run
PiReport ==
  /\ pc = "pi_run"
  /\ \E st \in FailedScans : out' = out \o StatsLines(st)
  /\ pc' = "pi_reported"
  /\ UNCHANGED <<inputVars, callVars, clockVars, displayVars, ctxDone,
                 firedAt, scanVars, spinner, httpVars>>

\* the select of the spinner's goroutine takes the stop case
SpinStopCase ==
  /\ sdpc = "select"
  /\ sstopChan = "closed"
  /\ sdpc' = "exited"
  /\ UNCHANGED <<inputVars, callVars, clockVars, barVars, smu, sstopChan,
                 sdrawn, ctxDone, firedAt, pc, scanVars, spinner, httpVars,
                 out>>

\* the select takes the ticker case (line 298)
SpinTick ==
  /\ sdpc = "select"
  /\ sdrawn < MaxDraws
  /\ sdpc' = "lock"
  /\ UNCHANGED <<inputVars, callVars, clockVars, barVars, smu, sstopChan,
                 sdrawn, ctxDone, firedAt, pc, scanVars, spinner, httpVars,
                 out>>

\* line 299
SpinLock ==
  /\ sdpc = "lock"
  /\ smu = "free"
  /\ smu' = "display"
  /\ sdpc' = "locked"
  /\ UNCHANGED <<inputVars, callVars, clockVars, barVars, sstopChan, sdrawn,
                 ctxDone, firedAt, pc, scanVars, spinner, httpVars, out>>

\* lines 300-315 on the spinner: the test of the flag, and the redraw
SpinDraw ==
  /\ sdpc = "locked"
  /\ IF Redraws(spinner)
       THEN /\ sdrawn' = sdrawn + 1
            /\ sdpc' = "drawn"
            /\ smu' = smu
       ELSE /\ smu' = Unlock(smu)
            /\ sdpc' = "exited"
            /\ sdrawn' = sdrawn
  /\ UNCHANGED <<inputVars, callVars, clockVars, barVars, sstopChan, ctxDone,
                 firedAt, pc, scanVars, spinner, httpVars, out>>

\* line 316
SpinUnlock ==
  /\ sdpc = "drawn"
  /\ smu' = Unlock(smu)
  /\ sdpc' = "select"
  /\ UNCHANGED <<inputVars, callVars, clockVars, barVars, sstopChan, sdrawn,
                 ctxDone, firedAt, pc, scanVars, spinner, httpVars, out>>

(***************************************************************************)
(* Specifications                                                          *)
(***************************************************************************)
InitCommon ==
  /\ ctxDone = FALSE
  /\ firedAt = NotFired
  /\ ignoredURLs = {}
  /\ missing = <<>>
  /\ errorStats = ZeroStats
  /\ i = 0
  /\ spinner = NewIndicator(FALSE, 0)
  /\ progress = NewIndicator(TRUE, 0)
  /\ hpc = "idle"
  /\ ri = 0
  /\ attempts = 0
  /\ resp = NilResp
  /\ err = NilErr
  /\ lastDo = NoOutcome
  /\ openBodies = 0
  /\ reqURL = {}
  /\ now = 0
  /\ salts = <<>>
  /\ result = <<>>
  /\ dpc = "none"
  /\ mu = "free"
  /\ stopChan = "open"
  /\ drawn = 0
  /\ sdpc = "none"
  /\ smu = "free"
  /\ sstopChan = "open"
  /\ sdrawn = 0
  /\ out = <<>>

\* a whole run of the program
Init ==
  /\ InitCommon
  /\ arg = <<>>
  /\ cfgOK \in BOOLEAN
  /\ history \in SeqsUpTo(AlbumPool, MaxAlbums)
  /\ ignoreFile \in SUBSET URLs
  /\ budget = NewHTTPClient.maxRetries
  /\ pc = "main"
  /\ albums = <<>>

Next ==
  \/ MainStart
  \/ FetchAttempt
  \/ FetchReturn
  \/ FmaEntry
  \/ ScanStep(URLTexts)
  \/ LookupAttempt(Subsonic)
  \/ LookupReturn
  \/ WaitSelect
  \/ Report
  \/ FmaReturn
  \/ MainPrint
  \/ Cancel
  \/ Tick

Spec == Init /\ [][Next]_vars

\* DoWithRetry called on a client with any budget
InitRetry ==
  /\ InitCommon
  /\ arg = <<>>
  /\ cfgOK = TRUE
  /\ history = <<>>
  /\ ignoreFile = {}
  /\ budget \in (0..MaxBudget) \cup {NewHTTPClient.maxRetries}
  /\ pc = "test"
  /\ albums = <<>>

NextRetry ==
  \/ DirectCall
  \/ DirectAttempt
  \/ WaitSelect
  \/ DirectReturn
  \/ Cancel

SpecRetry == InitRetry /\ [][NextRetry]_vars

\* findMissingAlbums called on a history of any length, ctx being
\* context.Background()
InitScan ==
  /\ InitCommon
  /\ arg = <<>>
  /\ cfgOK = TRUE
  /\ history = <<>>
  /\ ignoreFile \in SUBSET URLs
  /\ budget = NewHTTPClient.maxRetries
  /\ pc = "fma"
  /\ albums \in SeqsUpTo(AlbumPool, MaxScan)

NextScan ==
  \/ FmaEntry
  \/ ScanStep({{}})
  \/ LookupAttempt(ScanSubsonic)
  \/ LookupReturn
  \/ WaitSelect
  \/ Report
  \/ FmaReturn

SpecScan == InitScan /\ [][NextScan]_vars

(***************************************************************************)
(* findMissingAlbums called on a list of records, with a ctx that may be   *)
(* cancelled at any point, a goroutine that always runs on and a server    *)
(* that answers every request                                              *)
(***************************************************************************)
\* a Subsonic server with an empty library, which answers 200 with no
\* album or 503: every lookup that succeeds finds the album missing.  A
\* lookup that finds the album goes on to the next record (line 438), as
\* one that fails does (line 434).
EmptySubsonic == World({Payload("ok", <<>>)}, {503}, {})

\* a step of the goroutine that runs findMissingAlbums
ScanAdvance ==
  \/ FmaEntry
  \/ ScanStep({{}})
  \/ LookupAttempt(EmptySubsonic)
  \/ LookupReturn
  \/ WaitSelect
  \/ Report
  \/ FmaReturn

NextScanCancel ==
  \/ ScanAdvance
  \/ Cancel

\* the goroutine of findMissingAlbums always takes its next step: every
\* client.Do returns, and the select of lines 114-118 completes, since
\* time.After fires after retryDelay at the latest.  Nothing makes ctx be
\* cancelled.
ScanFairness == WF_vars(ScanAdvance)

SpecScanFair == InitScan /\ [][NextScanCancel]_vars /\ ScanFairness

\* titles and artist names that differ in letter case, in a trailing group,
\* in white space and in special characters
MatchTitles ==
  {<<"a">>, <<"A">>, <<"a", " ", "(", "b", ")">>, <<"a", " ", "b">>,
   <<" ", "a", "-">>, <<"b">>}

MatchArtists == {<<"x">>, <<"X", " ">>, <<"y">>}

MatchAlbums ==
  { [Name |-> n, Artist |-> a, URL |-> "u1"] : n \in MatchTitles, a \in MatchArtists }

MatchCandidates ==
  { [Title |-> n, Artist |-> a] : n \in MatchTitles, a \in MatchArtists }

\* what DoWithRetry may hand back to SearchAlbum: a 200 response with a
\* candidate list, with a malformed body or without the envelope, or an error
SearchReturns ==
  { [r |-> Response(StatusOK, Payload("ok", l), TRUE), e |-> NilErr] :
      l \in SeqsUpTo(MatchCandidates, MaxCandidates) }
    \cup { [r |-> Response(StatusOK, Payload(k, <<>>), TRUE), e |-> NilErr] :
             k \in {"malformed", "noenvelope"} }
    \cup { [r |-> NilResp, e |-> CtxErr] }

HasAlbumInputs ==
  { [album |-> al, ret |-> sr] : al \in MatchAlbums, sr \in SearchReturns }

\* HasAlbum(ctx, arg.album) when DoWithRetry returns arg.ret
HasAlbumCall ==
  /\ pc = "has"
  /\ result' = HasAlbum(arg.ret.r, arg.ret.e, arg.album)
  /\ pc' = "had"
  /\ UNCHANGED <<inputVars, displayVars, arg, clockVars, ctxDone, firedAt, scanVars,
                 spinner, httpVars, out>>

\* every marker categorizeError looks for, and a text that holds none
AllMarkers ==
  RateLimitMarkers \cup ServerErrorMarkers \cup NetworkMarkers
    \cup {"context deadline exceeded"}

\* messages that contain up to MaxMarkers of them
Messages ==
  { Error("lookup", 0, t) :
      t \in { m \in SUBSET AllMarkers : Cardinality(m) <= MaxMarkers } }

\* counters as line 427 leaves them: the failure is counted, its category
\* is not yet
StatsAtFailure ==
  { [ZeroStats EXCEPT !.Total = 1, !.Failed = 1],
    [Total |-> 4, Successful |-> 1, Failed |-> 3,
     RateLimit |-> 1, ServerError |-> 0, Network |-> 0, Other |-> 1] }

CategorizeInputs ==
  { [err |-> e, stats |-> st] : e \in Messages, st \in StatsAtFailure }

\* categorizeError(arg.err, &arg.stats)
CategorizeCall ==
  /\ pc = "categorize"
  /\ result' = categorizeError(arg.err, arg.stats)
  /\ pc' = "categorized"
  /\ UNCHANGED <<inputVars, displayVars, arg, clockVars, ctxDone, firedAt, scanVars,
                 spinner, httpVars, out>>

\* the functions called on their own, on every input of the bounded sets
InitFn ==
  /\ InitCommon
  /\ cfgOK = TRUE
  /\ history = <<>>
  /\ ignoreFile = {}
  /\ budget = NewHTTPClient.maxRetries
  /\ albums = <<>>
  /\ \/ pc = "clean" /\ arg \in CleanInputs
     \/ pc = "has" /\ arg \in HasAlbumInputs
     \/ pc = "categorize" /\ arg \in CategorizeInputs

NextFn ==
  \/ CleanCall
  \/ CleanAgain
  \/ HasAlbumCall
  \/ CategorizeCall

SpecFn == InitFn /\ [][NextFn]_vars

\* one indicator from its construction to the return of Stop, with its
\* display goroutine
InitDisplay ==
  /\ InitCommon
  /\ arg = <<>>
  /\ cfgOK = TRUE
  /\ history = <<>>
  /\ ignoreFile = {}
  /\ budget = NewHTTPClient.maxRetries
  /\ albums = <<>>
  /\ pc = "pi_new"

NextDisplay ==
  \/ PiNew
  \/ PiStart
  \/ PiUpdateCall
  \/ PiUpdate
  \/ PiStopCall
  \/ PiStopFlag
  \/ PiStopClose
  \/ PiStopReturn
  \/ DisplayStopCase
  \/ DisplayTick
  \/ DisplayLock
  \/ DisplayDraw
  \/ DisplayUnlock

SpecDisplay == InitDisplay /\ [][NextDisplay]_vars

\* a step of the display goroutine
DisplayAdvance ==
  \/ DisplayStopCase
  \/ DisplayTick
  \/ DisplayLock
  \/ DisplayDraw
  \/ DisplayUnlock

\* the display goroutine is scheduled again and again and its ticker keeps
\* ticking; the goroutine that has entered Stop runs it to its end (lines
\* 330-335 have no loop and no wait but the mutex); a goroutine that waits
\* in p.mu.Lock() gets the mutex when it is free again and again
\* (sync.Mutex hands the mutex to a waiter that has waited long)
DisplayFairness ==
  /\ WF_vars(DisplayAdvance)
  /\ WF_vars(PiStopClose \/ PiStopReturn)
  /\ SF_vars(PiUpdate)
  /\ SF_vars(PiStopFlag)

SpecDisplayFair == InitDisplay /\ [][NextDisplay]_vars /\ DisplayFairness

\* the indicators of a whole run, the spinner first
InitIndicators ==
  /\ InitCommon
  /\ arg = <<>>
  /\ cfgOK = TRUE
  /\ history = <<>>
  /\ ignoreFile = {}
  /\ budget = NewHTTPClient.maxRetries
  /\ albums = <<>>
  /\ pc = "sp_new"

NextIndicators ==
  \/ SpStart
  \/ SpStopCall
  \/ SpStopFlag
  \/ SpStopClose
  \/ SpStopReturn
  \/ SpExamine
  \/ SpinStopCase
  \/ SpinTick
  \/ SpinLock
  \/ SpinDraw
  \/ SpinUnlock
  \/ PiStart
  \/ PiUpdateCall
  \/ PiUpdate
  \/ PiReport
  \/ PiStopCall
  \/ PiStopFlag
  \/ PiStopClose
  \/ PiStopReturn
  \/ DisplayStopCase
  \/ DisplayTick
  \/ DisplayLock
  \/ DisplayDraw
  \/ DisplayUnlock

SpecIndicators == InitIndicators /\ [][NextIndicators]_vars

(***************************************************************************)
(* Properties                                                              *)
(***************************************************************************)
RECURSIVE IsSubsequence(_, _)
IsSubsequence(s, t) ==
  IF s = <<>> THEN TRUE
  ELSE IF t = <<>> THEN FALSE
  ELSE IF Head(s) = Head(t) THEN IsSubsequence(Tail(s), Tail(t))
  ELSE IsSubsequence(s, Tail(t))

Smaller(a, b) == IF a <= b THEN a ELSE b

AfterScan == pc \in {"report", "defer", "fma_ret", "done"}

\* the lookup that has just returned to HasAlbum failed: DoWithRetry gave an
\* error, or the payload of its 200 response is malformed
LookupFailed == err # NilErr \/ resp.payload.kind = "malformed"

\* the lookup that has just returned succeeded and no candidate of its
\* payload has the title and the artist of the record
LookupAbsent ==
  /\ ~LookupFailed
  /\ \A k \in 1..Len(resp.payload.list) :
       ~(/\ EqualFold(cleanString(resp.payload.list[k].Title),
                      cleanString(albums[i + 1].Name))
         /\ EqualFold(cleanString(resp.payload.list[k].Artist),
                      cleanString(albums[i + 1].Artist)))

\* the step is the return of HasAlbum into the loop body
LookupReturns == pc = "lookup" /\ hpc = "ret" /\ hpc' = "idle"

CategorySum(st) == st.RateLimit + st.ServerError + st.Network + st.Other

\* C1: for a history of K records, whatever the ignore set and the outcomes
\* of the lookups, the result of findMissingAlbums has at most min(K, 5)
\* records and is an order-preserving subsequence of the history.
C1_ResultBounded ==
  /\ Len(missing) <= Smaller(Len(albums), 5)
  /\ IsSubsequence(missing, albums)

\* a scan of 6 records returns 5 of them that are not the first 5
C1_Witness ==
  /\ pc = "fma_ret"
  /\ Len(albums) = 6
  /\ Len(missing) = 5
  /\ missing # SubSeq(albums, 1, 5)

\* C2: the result is built, in input order, from exactly the records that are
\* not ignored and whose lookup succeeded without a match: a step changes the
\* result only by appending the record whose lookup returns, and it does so
\* exactly when that lookup succeeded without a match; records are taken in
\* input order; and when nothing is ignored and every lookup succeeded
\* without a match, the result is the first min(5, K) records of the history.
C2_ExactResult ==
  /\ [][ /\ missing' = IF LookupReturns /\ LookupAbsent
                         THEN Append(missing, albums[i + 1])
                         ELSE missing
         /\ (LookupReturns => ~isURLIgnored(albums[i + 1].URL, ignoredURLs))
         /\ i' >= i ]_vars
  /\ [](pc = "fma_ret" /\ errorStats.Total = Len(missing)
          /\ (\A k \in 1..Len(albums) : albums[k].URL \notin ignoreFile)
          => missing = SubSeq(albums, 1, Smaller(5, Len(albums))))

\* 6 records, an always-empty library: the first 5 are returned and the
\* sixth is never looked up
C2_Witness ==
  /\ pc = "fma_ret"
  /\ Len(albums) = 6
  /\ errorStats.Total = 5
  /\ errorStats.Successful = 5
  /\ missing = SubSeq(albums, 1, 5)

\* C3: a record whose URL is in the ignore list never appears in the result.
C3_IgnoredNeverReturned ==
  \A k \in 1..Len(missing) : missing[k].URL \notin ignoreFile

\* a run over an ignored and a not-ignored record that recommends the latter
C3_Witness ==
  /\ pc = "done"
  /\ Len(albums) = 2
  /\ albums[1].URL \in ignoreFile
  /\ missing = <<albums[2]>>

\* C4: a failed lookup does not abort the scan: the loop counts the failure
\* (Failed and one category counter go up by one), leaves the result as it
\* is and goes on to the next record; and a run in which a lookup failed
\* does not end with the error exit.
C4_FailureNotFatal ==
  /\ [][ LookupReturns /\ LookupFailed =>
           /\ errorStats'.Failed = errorStats.Failed + 1
           /\ CategorySum(errorStats') = CategorySum(errorStats) + 1
           /\ missing' = missing
           /\ pc' = "scan"
           /\ i' = i + 1 ]_vars
  /\ [](errorStats.Failed > 0 => pc # "exit1")

\* the lookup of the first record failed and the second record was still
\* looked up and recommended
C4_Witness ==
  /\ pc = "done"
  /\ Len(albums) = 2
  /\ ignoreFile = {}
  /\ errorStats.Failed = 1
  /\ errorStats.Total = 2
  /\ missing = <<albums[2]>>

\* C5: once the result holds 5 records the scan has stopped, and from then on
\* no lookup is started, no counter changes and no progress is reported; a
\* scan that ends with fewer than 5 records has taken every record.
C5_StopsAtCap ==
  /\ [](Len(missing) >= 5 => AfterScan)
  /\ [][ Len(missing) >= 5 =>
           /\ errorStats' = errorStats
           /\ progress'.current = progress.current
           /\ i' = i
           /\ attempts' = attempts
           /\ hpc' = hpc ]_vars
  /\ [](AfterScan /\ Len(missing) < 5 => i = Len(albums))

\* the cap was reached at the fifth of six records
C5_Witness ==
  /\ pc = "fma_ret"
  /\ Len(missing) = 5
  /\ Len(albums) = 6
  /\ progress.current = 5
  /\ errorStats.Total = 5

\* DoWithRetry has returned to its caller
Returned == hpc = "ret"

\* C6: a call of DoWithRetry on a client with budget N makes at most N
\* attempts; a call that ends with an error while ctx is still open has made
\* exactly N attempts, none of them answered 200; the budget of a client
\* built by NewHTTPClient is 3.
C6_BudgetRespected ==
  /\ attempts <= budget
  /\ (Returned /\ ~ctxDone /\ err # NilErr => attempts = budget)
  /\ (Returned /\ err # NilErr => resp.nil \/ resp.status # 200)
  /\ NewHTTPClient.maxRetries = 3

\* a budget of 2 against a server that answers 503: two attempts, then the
\* status error
C6_Witness ==
  /\ Returned
  /\ ~ctxDone
  /\ budget = 2
  /\ attempts = 2
  /\ err.kind = "status"
  /\ err.code = 503

\* C7 as stated: every attempt that does not answer 200 is followed by
\* another attempt while budget remains, so a call returns an error only
\* once its budget is used up.
C7_ErrorOnlyAtExhaustion ==
  Returned /\ err # NilErr => attempts = budget

\* C7 amended: DoWithRetry returns success exactly when it holds a 200
\* response, and it returns as soon as an attempt gives one; any other
\* outcome of an attempt is followed by a wait and another attempt while
\* budget remains, unless ctx is done when the wait is decided, in which
\* case the call returns the cancellation error.
C7_RetryUnlessCancelled ==
  /\ [](Returned => (err = NilErr <=> ~resp.nil /\ resp.status = 200 /\ resp.open))
  /\ [](~resp.nil /\ resp.status = 200 => Returned /\ err = NilErr)
  /\ [](Returned /\ err # NilErr => attempts = budget \/ err = CtxErr)
  /\ [][ hpc = "do" /\ hpc' # "do" /\ attempts < budget =>
           hpc' = "wait" \/ (hpc' = "ret" /\ err' = NilErr) ]_vars
  /\ [][ hpc = "wait" /\ hpc' # "wait" =>
           IF ctxDone
             THEN hpc' = "ret" /\ err' = CtxErr
             ELSE hpc' = "do" /\ attempts' = attempts + 1 ]_vars

\* a second attempt is in flight after a 404
C7_Witness ==
  /\ pc = "direct"
  /\ hpc = "do"
  /\ attempts = 2
  /\ ~resp.nil
  /\ resp.status = 404

\* C8: when ctx is done while DoWithRetry waits between two attempts, the
\* next step of DoWithRetry is its return of the cancellation error, with no
\* response and no further attempt.
C8_CancelEndsWait ==
  [][ hpc = "wait" /\ ctxDone =>
        /\ hpc' = "ret"
        /\ err' = CtxErr
        /\ resp' = NilResp
        /\ attempts' = attempts ]_vars

\* ctx fired during the first wait of a call with budget 3, and the call
\* returned the cancellation error after that one attempt
C8_Witness ==
  /\ Returned
  /\ firedAt = <<"direct", "wait">>
  /\ budget = 3
  /\ attempts = 1
  /\ err = CtxErr

\* C9: once ctx is done no wait of DoWithRetry is followed by another
\* attempt, and when ctx fired during the lookup of a record,
\* findMissingAlbums starts no lookup for a later record.
C9_NoLookupAfterCancel ==
  [][ ctxDone =>
        /\ (hpc = "wait" => hpc' # "do")
        /\ (firedAt[1] = "lookup" => errorStats'.Total = errorStats.Total) ]_vars

\* C10: a run whose ctx fired while a lookup of the scan was in flight or
\* waiting to retry does not end by printing a result list as a run whose
\* scan completed does.
C10_CancelSurfaces ==
  firedAt[1] = "lookup" /\ firedAt[2] \in {"do", "wait"} => pc # "done"

\* the call has returned the error built after the loop of DoWithRetry
Exhausted == Returned /\ err \notin {NilErr, CtxErr}

\* C11: when DoWithRetry returns because its budget is used up, its error
\* names the outcome of the last client.Do (the status of its response, or
\* the text of its transport error when it gave no response) and the number
\* of attempts the call has made.
C11_NamesLastAttempt ==
  Exhausted =>
    /\ attempts = budget
    /\ err.retries = attempts
    /\ IF lastDo.resp.nil
         THEN err.kind = "noresp" /\ err.text = lastDo.err.text
         ELSE err.kind = "status" /\ err.code = lastDo.resp.status

\* three attempts, the last of which answered 429: the error names 429 and 3
C11_Witness ==
  /\ Exhausted
  /\ budget = 3
  /\ attempts = 3
  /\ lastDo.resp.status = 429
  /\ err.kind = "status"
  /\ err.code = 429
  /\ err.retries = 3

\* C12: a call of DoWithRetry returns either a response or an error, never
\* both and never neither: the response it returns is non-nil exactly when
\* the error it returns is nil.
C12_ResponseXorError ==
  Returned => (~resp.nil <=> err = NilErr)

\* C13: the body of the response of every failed attempt is closed before
\* the wait and the next attempt, so no body is open while DoWithRetry waits
\* or has an attempt in flight, at most one body is open at any time, and
\* none is open when the call returns an error.
C13_FailedResponsesClosed ==
  /\ openBodies <= 1
  /\ (hpc \in {"wait", "do"} => openBodies = 0)
  /\ (Returned /\ err # NilErr => openBodies = 0 /\ (resp.nil \/ ~resp.open))

\* three attempts were answered with a status other than 200, and the call
\* returned its error with the last response closed and no body open
C13_Witness ==
  /\ Returned
  /\ attempts = 3
  /\ err.kind = "status"
  /\ ~resp.nil
  /\ ~resp.open
  /\ openBodies = 0

\* C14: no two SearchAlbum calls of a run use the same salt.
C14_SaltsDistinct ==
  \A j, k \in 1..Len(salts) : j # k => salts[j] # salts[k]

\* C15: cleanString is idempotent: cleanString of what cleanString returned
\* is that same text.
C15_Idempotent ==
  [][ pc = "cleaned" /\ pc' = "recleaned" => result' = result ]_vars

\* a text of two groups was cleaned to the text of the first group, and
\* cleaned again
C15_Witness ==
  /\ pc = "recleaned"
  /\ arg = <<"(", "a", ")", "(", ")">>
  /\ result = <<"a">>

\* the letters and digits of s, in order
Alnum(s) == SelectSeq(s, LAMBDA c : c \in Letters \cup Digits)

\* g is one parenthesized group: "(", a text without ")", and ")"
IsGroup(g) ==
  /\ Len(g) >= 2
  /\ g[1] = "("
  /\ g[Len(g)] = ")"
  /\ \A k \in 2..(Len(g) - 1) : g[k] # ")"

\* some suffix of t is one parenthesized group
EndsWithGroup(t) == \E p \in 1..Len(t) : IsGroup(SubSeq(t, p, Len(t)))

TestAlbumLive ==
  <<"T", "e", "s", "t", " ", "A", "l", "b", "u", "m", " ", "L", "i", "v", "e">>

Fold(s) == [k \in 1..Len(s) |-> ToLower(s[k])]

\* the search of a direct HasAlbum call succeeded
SearchSucceeded == arg.ret.e = NilErr /\ arg.ret.r.payload.kind # "malformed"

\* C17: HasAlbum returns true exactly when the search succeeded and some
\* candidate it returned has a title and an artist whose cleanString equal,
\* letter case apart, the cleanString of the record's title and artist; it
\* returns an error exactly when the search failed.
C17_MatchIffNormalizedEqual ==
  pc = "had" =>
    /\ result.exists <=>
         /\ SearchSucceeded
         /\ \E k \in 1..Len(arg.ret.r.payload.list) :
              LET a == arg.ret.r.payload.list[k]
              IN  /\ Fold(cleanString(a.Title)) = Fold(cleanString(arg.album.Name))
                  /\ Fold(cleanString(a.Artist)) = Fold(cleanString(arg.album.Artist))
    /\ result.err = NilErr <=> SearchSucceeded

\* the record "a (b)" by "X " was found in a library that lists another
\* album and then "A" by "x"
C17_Witness ==
  /\ pc = "had"
  /\ result.exists
  /\ arg.album.Name = <<"a", " ", "(", "b", ")">>
  /\ arg.album.Artist = <<"X", " ">>
  /\ Len(arg.ret.r.payload.list) = 2
  /\ arg.ret.r.payload.list[1].Title = <<"b">>
  /\ arg.ret.r.payload.list[2] = [Title |-> <<"A">>, Artist |-> <<"x">>]

\* the message handed to categorizeError contains a marker of the set
Has(markers) == arg.err.text \cap markers # {}

\* the call added one to counter c and left every other counter alone
OnlyCounted(c) == result = [arg.stats EXCEPT ![c] = @ + 1]

\* C18: categorizeError adds one to exactly one of the four category
\* counters and changes nothing else: RateLimit when the message has a
\* rate-limit marker; else ServerError when it has a server-error marker
\* (500, 502, 503, 504 and their reason phrases); else Network when it has a
\* network marker; Other only when it has none of them.
C18_OneCategoryByPriority ==
  pc = "categorized" =>
    /\ CategorySum(result) = CategorySum(arg.stats) + 1
    /\ \E c \in {"RateLimit", "ServerError", "Network", "Other"} : OnlyCounted(c)
    /\ (Has(RateLimitMarkers) => OnlyCounted("RateLimit"))
    /\ (~Has(RateLimitMarkers) /\ Has(ServerErrorMarkers)
          => OnlyCounted("ServerError"))
    /\ (~Has(RateLimitMarkers) /\ ~Has(ServerErrorMarkers) /\ Has(NetworkMarkers)
          => OnlyCounted("Network"))
    /\ (OnlyCounted("Other")
          <=> ~Has(RateLimitMarkers \cup ServerErrorMarkers \cup NetworkMarkers))

\* a message with "429" and "503" was counted as a rate limit
C18_Witness ==
  /\ pc = "categorized"
  /\ arg.err.text = {"429", "503"}
  /\ result.RateLimit = arg.stats.RateLimit + 1
  /\ result.ServerError = arg.stats.ServerError

\* GetTopAlbums has returned an error to main
FetchFailed == \E k \in 1..Len(out) : out[k] = "fetch error"

\* GetTopAlbums is returning an error to main
FetchFails ==
  pc = "fetch" /\ hpc = "ret" /\ (err # NilErr \/ resp.payload.kind = "malformed")

\* C19 as stated: a run ends with the error exit only when GetTopAlbums
\* returned an error; when it did, main has made no library lookup and takes
\* the error exit; a run in which a lookup failed does not take it.
C19_OnlyFetchFailureAborts ==
  /\ (pc = "exit1" => FetchFailed)
  /\ (FetchFailed => pc = "exit1" /\ errorStats.Total = 0 /\ salts = <<>>)
  /\ (errorStats.Failed > 0 => pc # "exit1")

\* C19 amended: a run ends with the error exit only when loadConfig found a
\* required setting missing, before any request, or when GetTopAlbums
\* returned an error; in the latter case main makes no library lookup and
\* its next step is the error exit; once the scan has started a lookup,
\* whatever its outcome, the run does not take the error exit.
C19_AbortOnlyBeforeScan ==
  /\ [](pc = "exit1" =>
          \/ ~cfgOK /\ out = <<"missing config">> /\ spinner.starts = 0
          \/ FetchFailed)
  /\ [](FetchFailed => pc = "exit1" /\ errorStats.Total = 0 /\ salts = <<>>)
  /\ [][ FetchFails /\ pc' # "fetch" => pc' = "exit1" ]_vars
  /\ [](errorStats.Total > 0 => pc # "exit1")

\* the history service holds records, GetTopAlbums failed after three
\* attempts, and the run took the error exit without a lookup
C19_Witness ==
  /\ pc = "exit1"
  /\ cfgOK
  /\ history # <<>>
  /\ FetchFailed
  /\ errorStats.Total = 0
  /\ albums = <<>>

\* how many times the run has printed the line
Printed(line) == Cardinality({ k \in 1..Len(out) : out[k] = line })

\* the statistics block of findMissingAlbums is behind
Reported == pc \in {"defer", "fma_ret", "done"}

\* C20: a scan prints the statistics summary once when a lookup has failed
\* and not at all otherwise; it prints the hint of a category once when the
\* counter of that category is not 0 and not at all otherwise; nothing of
\* this is printed before the scan has ended.
C20_StatsIffFailed ==
  /\ (Reported =>
        /\ Printed("stats") = (IF errorStats.Failed > 0 THEN 1 ELSE 0)
        /\ \A c \in {"RateLimit", "ServerError", "Network", "Other"} :
             Printed("hint " \o c) = (IF errorStats[c] > 0 THEN 1 ELSE 0))
  /\ (~Reported =>
        /\ Printed("stats") = 0
        /\ \A c \in {"RateLimit", "ServerError", "Network", "Other"} :
             Printed("hint " \o c) = 0)

\* a run with one rate-limited and one refused lookup printed the summary
\* and the two hints, and then its result
C20_Witness ==
  /\ pc = "done"
  /\ errorStats.Failed = 2
  /\ errorStats.RateLimit = 1
  /\ errorStats.Network = 1
  /\ out = <<"stats", "hint RateLimit", "hint Network", "all exist">>

\* the 200 response DoWithRetry has handed to the client carries a body that
\* is not JSON, or JSON without the envelope of the service
BadPayload ==
  hpc = "ret" /\ err = NilErr /\ resp.payload.kind \in {"malformed", "noenvelope"}

\* C21: when a 200 response carries a payload that is malformed or lacks the
\* expected envelope, GetTopAlbums and SearchAlbum return a parse error and
\* not an empty list: the fetch ends the run with the error exit, and the
\* lookup is counted as failed.
C21_ParseErrorOnBadPayload ==
  [][ BadPayload =>
        /\ (pc = "fetch" /\ pc' # "fetch" => pc' = "exit1")
        /\ (LookupReturns => errorStats'.Failed = errorStats.Failed + 1) ]_vars

\* Stop has written the flag of the indicator
StopFlagged == pc \in {"pi_close", "pi_clear", "pi_stopped"}

\* C22: once Stop has returned, the display goroutine prints no further
\* redraw, however its ticks interleave with Stop; indeed none from the
\* moment Stop has cleared the flag, and no redraw is in progress then.
C22_NoRedrawAfterStop ==
  /\ [][ pc = "pi_stopped" => drawn' = drawn ]_vars
  /\ [][ StopFlagged => drawn' = drawn ]_vars
  /\ [](StopFlagged => dpc # "drawn")

\* Stop has returned while the display goroutine, which has drawn once, had
\* taken a tick and not yet the mutex
C22_Witness ==
  /\ pc = "pi_stopped"
  /\ drawn = 1
  /\ dpc = "lock"
  /\ stopChan = "closed"

\* lookups that have been started and have not returned
InFlight == errorStats.Total - (errorStats.Successful + errorStats.Failed)

\* C23: the scan is sequential: at most one lookup is in flight, and one is
\* exactly while the loop is inside HasAlbum; a lookup starts only when the
\* one before has returned and no request is under way; a lookup is for the
\* record at the loop position, which stays where it is during the lookup,
\* moves on by one when the lookup returns (unless the scan ends there) and
\* never moves back.
C23_Sequential ==
  /\ [](InFlight \in {0, 1})
  /\ [](InFlight = 1 <=> pc = "lookup")
  /\ [][ errorStats'.Total # errorStats.Total =>
           /\ errorStats'.Total = errorStats.Total + 1
           /\ InFlight = 0
           /\ hpc = "idle"
           /\ pc' = "lookup"
           /\ i' = i ]_vars
  /\ [][ pc = "lookup" =>
           \/ i' = i /\ pc' = "lookup"
           \/ LookupReturns /\ (i' = i + 1 \/ (i' = i /\ pc' = "report")) ]_vars
  /\ [][ i' >= i ]_vars

\* the lookup of the second record is in flight after the lookup of the
\* first has returned
C23_Witness ==
  /\ pc = "lookup"
  /\ hpc = "do"
  /\ i = 1
  /\ errorStats.Total = 2
  /\ errorStats.Successful + errorStats.Failed = 1

\* C24: the progress observation of a record is emitted after the record
\* has been processed: while the loop is between two records or inside the
\* lookup of one, the index observed last is the number of records processed
\* so far; and the index never exceeds the total.
C24_ObservedAfterProcessed ==
  /\ progress.current <= progress.total
  /\ (pc \in {"scan", "lookup"} => progress.current = i)

\* two places of the sequence hold the same source URL
HasDuplicateURL(s) ==
  \E j, k \in 1..Len(s) : j # k /\ s[j].URL = s[k].URL

\* the records of the scanned history that are not ignored
NotIgnored == { k \in 1..Len(albums) : albums[k].URL \notin ignoreFile }

\* C25: the scan does not deduplicate: a scan that ends below the cap has
\* started one lookup for every record that is not ignored, duplicates
\* included; the record whose lookup finds it absent is appended whether or
\* not the result already holds it; and the result holds a source URL twice
\* only when the history does.
C25_NoDeduplication ==
  /\ [](pc = "fma_ret" /\ Len(missing) < maxRecommendations
          => errorStats.Total = Cardinality(NotIgnored))
  /\ [][ LookupReturns /\ LookupAbsent =>
           missing' = Append(missing, albums[i + 1]) ]_vars
  /\ [](HasDuplicateURL(missing) => HasDuplicateURL(albums))

\* a history that lists the same record twice gave a result that lists it
\* twice, after two lookups
C25_Witness ==
  /\ pc = "fma_ret"
  /\ Len(albums) = 2
  /\ albums[1] = albums[2]
  /\ missing = albums
  /\ errorStats.Total = 2

\* the loop is taking a record whose URL is in the ignore list
TakesIgnored ==
  /\ pc = "scan"
  /\ pc' = "scan"
  /\ i < Len(albums)
  /\ albums[i + 1].URL \in ignoreFile
  /\ i' # i

\* C26: the iteration of an ignored record changes the progress position
\* and nothing else: it starts no lookup (no request, no salt), and it
\* leaves every ErrorStats counter and the result as they are.
C26_IgnoredOnlyMovesProgress ==
  /\ [][ TakesIgnored =>
           /\ progress' = [progress EXCEPT !.current = i + 1]
           /\ i' = i + 1
           /\ errorStats' = errorStats
           /\ missing' = missing
           /\ UNCHANGED <<httpVars, salts, out, albums, ignoredURLs>> ]_vars
  /\ [][ pc = "scan" /\ i < Len(albums) /\ albums[i + 1].URL \in ignoreFile =>
           pc' = "scan" /\ errorStats'.Total = errorStats.Total ]_vars

\* the first of two records was ignored: the position is 1 and nothing was
\* counted
C26_Witness ==
  /\ pc = "scan"
  /\ Len(albums) = 2
  /\ albums[1].URL \in ignoreFile
  /\ i = 1
  /\ progress.current = 1
  /\ errorStats = ZeroStats
  /\ missing = <<>>
  /\ salts = <<>>

Counters ==
  {"Total", "Successful", "Failed", "RateLimit", "ServerError", "Network",
   "Other"}

\* C27: whenever the loop is not inside a lookup, and so after every
\* processed record and at the end of the scan, Total = Successful + Failed;
\* Failed is always the sum of the four category counters; and no counter
\* ever decreases.
C27_CountersConsistent ==
  /\ [](pc # "lookup" => errorStats.Total = errorStats.Successful + errorStats.Failed)
  /\ [](errorStats.Failed = CategorySum(errorStats))
  /\ [][ \A c \in Counters : errorStats'[c] >= errorStats[c] ]_vars

\* a run of two lookups, one of which failed with a server error
C27_Witness ==
  /\ pc = "done"
  /\ errorStats.Total = 2
  /\ errorStats.Successful = 1
  /\ errorStats.Failed = 1
  /\ errorStats.ServerError = 1

InClientCall == pc \in {"fetch", "lookup"}

Waits == ri

\* C29: a wait begins only when a failed attempt returns and that attempt
\* is not the last of the budget, so never before the first attempt; a wait
\* that lasts the whole delay is followed by the next attempt, and a wait
\* that ctx cuts short ends the call; at every point of a call that has
\* made k >= 1 attempts, k - 1 waits have lasted the whole delay.
C29_WaitsBetweenAttempts ==
  /\ [](hpc = "wait" => attempts >= 1 /\ attempts < budget /\ lastDo # NoOutcome)
  /\ [](hpc # "idle" /\ attempts >= 1 => Waits = attempts - 1)
  /\ [](hpc # "idle" /\ attempts = 0 => Waits = 0 /\ hpc = "ret")
  /\ [][ hpc # "wait" /\ hpc' = "wait" =>
           hpc = "do" /\ ~IsSuccess(lastDo'.resp, lastDo'.err) ]_vars
  /\ [][ hpc = "idle" /\ hpc' # "idle" => hpc' # "wait" /\ Waits' = 0 ]_vars
  /\ [][ hpc = "wait" /\ hpc' # "wait" =>
           \/ /\ ~ctxDone
              /\ hpc' = "do"
              /\ Waits' = Waits + 1
              /\ attempts' = attempts + 1
           \/ /\ ctxDone
              /\ hpc' = "ret"
              /\ err' = CtxErr
              /\ Waits' = Waits
              /\ attempts' = attempts ]_vars
  /\ [][ hpc = "do" /\ hpc' = "ret" /\ attempts = budget =>
           UNCHANGED <<ri, attempts>> ]_vars

\* the whole budget used: budget attempts and budget - 1 waits
C29_Witness ==
  /\ hpc = "ret"
  /\ budget = MaxBudget
  /\ attempts = budget
  /\ Waits = budget - 1
  /\ err # NilErr
  /\ err # CtxErr

\* the loop takes the record at index i + 1
Visits == pc = "scan" /\ i < Len(albums) /\ (i' # i \/ pc' = "lookup")

\* C30: findMissingAlbums returns in every run, whether its lookups
\* succeed, fail or are cancelled; the index of the loop never goes back,
\* a record once taken is left with the index advanced or with the end of
\* the loop, and the index never passes the end of the input: each record
\* is visited at most once.
C30_Terminates ==
  /\ <>(pc = "fma_ret")
  /\ [](i <= Len(albums))
  /\ [][ i' >= i ]_vars
  /\ [][ Visits /\ pc' = "scan" => i' = i + 1 ]_vars
  /\ [][ Visits /\ pc' = "lookup" => i' = i ]_vars
  /\ [][ pc = "lookup" /\ pc' # "lookup" =>
           \/ pc' = "scan" /\ i' = i + 1
           \/ pc' = "report" ]_vars
  /\ [][ (pc \in {"report", "defer", "fma_ret"}) =>
           i' = i /\ pc' # "scan" ]_vars

\* a scan that returned after ctx was cancelled during a lookup, all of
\* MaxScan records visited, some lookups failed and some not
C30_Witness ==
  /\ pc = "fma_ret"
  /\ ctxDone
  /\ firedAt[1] = "lookup"
  /\ Len(albums) = MaxScan
  /\ i = MaxScan
  /\ errorStats.Failed >= 1
  /\ errorStats.Successful >= 1
\* C31: once Stop has been called, the display goroutine exits; it exits
\* in one of two ways, by the stop case of its select with the channel
\* closed or by finding the flag cleared at a tick, and so never before
\* Stop was called; having exited it takes no further step.
C31_DisplayExits ==
  /\ StopFlagged ~> (dpc = "exited")
  /\ [][ dpc # "exited" /\ dpc' = "exited" =>
           \/ dpc = "select" /\ stopChan = "closed"
           \/ dpc = "locked" /\ ~progress.active ]_vars
  /\ [](dpc = "exited" => StopFlagged)
  /\ [][ dpc = "exited" => UNCHANGED <<dpc, drawn, mu>> ]_vars

\* the goroutine has exited at a tick, Stop having cleared the flag and not
\* yet closed the channel
C31_Witness ==
  /\ dpc = "exited"
  /\ pc = "pi_close"
  /\ stopChan = "open"
  /\ drawn >= 1

\* C32: a call of Update that has come to the mutex gets it and returns,
\* and so does a call of Stop, which then runs to its end; the display
\* goroutine that has come to the mutex gets it as well; the mutex is held
\* only by the display goroutine between its Lock and its Unlock, so
\* whoever holds it is not waiting for anything.
C32_NoDeadlock ==
  /\ (pc = "pi_update") ~> (pc = "pi_run")
  /\ (pc = "pi_stop") ~> (pc = "pi_stopped")
  /\ (dpc = "lock") ~> (dpc = "locked")
  /\ [](mu = "display" <=> dpc \in {"locked", "drawn"})
  /\ [](mu \in {"free", "display"})

\* Stop waits for the mutex, which the display goroutine holds during its
\* second redraw
C32_Witness ==
  /\ pc = "pi_stop"
  /\ mu = "display"
  /\ dpc = "drawn"
  /\ drawn = 2

\* C33: whenever the display goroutine redraws a progress bar, the total of
\* the bar is greater than 0 and 0 <= current <= total.
C33_RedrawHasTotal ==
  dpc = "drawn" /\ progress.showBar =>
    /\ progress.total > 0
    /\ 0 <= progress.current
    /\ progress.current <= progress.total

\* p has been started once and then stopped once
StartedAndStopped(p) == p.starts = 1 /\ p.stops = 1 /\ ~p.active

\* p has not been started, nor stopped
Untouched(p) == p.starts = 0 /\ p.stops = 0 /\ ~p.active

\* one call of Start or of Stop on the indicator that goes from p to q, a
\* Stop only on an indicator that Start has made active
OneStartThenOneStop(p, q) ==
  /\ q.starts # p.starts => Untouched(p) /\ q.starts = 1 /\ q.active
  /\ q.stops # p.stops =>
       /\ p.starts = 1
       /\ p.stops = 0
       /\ p.active
       /\ q.stops = 1
       /\ q.starts = 1

\* C34: the spinner and the progress bar are each started at most once and
\* stopped at most once, the stop after the start; when main returns both
\* have been started once and stopped once, and when the run ends with
\* exit status 1 the spinner has been either, or neither, and the bar
\* neither; findMissingAlbums returns with its bar stopped.
C34_StartOnceStopOnce ==
  /\ [][ OneStartThenOneStop(spinner, spinner') ]_vars
  /\ [][ OneStartThenOneStop(progress, progress') ]_vars
  /\ [](pc = "done" => StartedAndStopped(spinner) /\ StartedAndStopped(progress))
  /\ [](pc = "fma_ret" => StartedAndStopped(progress))
  /\ [](pc = "exit1" =>
          /\ StartedAndStopped(spinner) \/ Untouched(spinner)
          /\ Untouched(progress))
  /\ [](pc \in {"fetch"} => spinner.active /\ spinner.stops = 0)
  /\ [](pc \in {"scan", "lookup", "report", "defer"} =>
          progress.active /\ progress.stops = 0)

\* main has returned after a scan of two records
C34_Witness ==
  /\ pc = "done"
  /\ Len(albums) = 2
  /\ i = 2
  /\ StartedAndStopped(spinner)
  /\ StartedAndStopped(progress)

\* main is past spinner.Stop()
SpinnerStopped ==
  pc \in {"sp_stopped", "exit1", "pi_made", "pi_run", "pi_update",
          "pi_reported", "pi_stop", "pi_close", "pi_clear", "pi_stopped"}

\* C35: the spinner and the bar are never active together; when main
\* examines the result of the fetch, and from then on, Stop of the spinner
\* has returned: its flag is cleared and its channel closed; the bar is
\* started only after that; and while the bar is active, and indeed from
\* the moment the flag of the spinner is cleared, the goroutine of the
\* spinner prints no redraw and is in none.
C35_OneIndicatorAtATime ==
  /\ [](~(spinner.active /\ progress.active))
  /\ [](SpinnerStopped =>
          ~spinner.active /\ spinner.stops = 1 /\ sstopChan = "closed")
  /\ [](progress.starts > 0 => SpinnerStopped /\ pc # "sp_stopped")
  /\ [][ progress.active \/ SpinnerStopped => sdrawn' = sdrawn ]_vars
  /\ [](progress.active \/ SpinnerStopped => sdpc # "drawn")
  /\ [][ spinner.stops = 1 => sdrawn' = sdrawn ]_vars

\* the bar is active and has been redrawn while the goroutine of the
\* spinner, which has drawn, still waits for the mutex after its last tick
C35_Witness ==
  /\ progress.active
  /\ drawn >= 1
  /\ sdpc = "lock"
  /\ sdrawn >= 1
  /\ pc = "pi_run"

\* the cause of the transport failure that the last client.Do returned
LastCause ==
  CHOOSE c \in {"refused", "ctx"} : TransportErr(c, reqURL) = lastDo.err

\* the error DoWithRetry returns for a lookup that fails as the one that is
\* returning does, and whose request URL carries the marker texts u: only
\* the error of a transport failure quotes the URL
SameFailureWith(u) ==
  IF err.kind = "noresp"
    THEN ExhaustedErr(NilResp, TransportErr(LastCause, u))
    ELSE err

\* C36: the category of a failed lookup does not depend on the request URL:
\* a lookup that fails in the same way with any other title, salt and
\* token in its URL is put in the same category.
C36_CategoryByKindAlone ==
  pc = "lookup" /\ hpc = "ret" /\ err # NilErr =>
    \A u \in URLTexts :
      Category(Wrap(SameFailureWith(u))) = Category(Wrap(err))

\* C37: once findMissingAlbums has printed the statistics summary its bar
\* is stopped: the flag is cleared, and the display goroutine is not in a
\* redraw and starts none.
C37_StoppedBeforeSummary ==
  Printed("stats") > 0 =>
    /\ ~progress.active
    /\ dpc \notin {"locked", "drawn"}

\* C38: when findMissingAlbums returns an empty list, and when main has
\* printed the message for it, every record that is not ignored has been
\* looked up with success (and, the list being empty, was found): no
\* lookup has failed and the successful ones are as many as those records.
C38_EmptyOnlyIfAllFound ==
  pc \in {"fma_ret", "done"} /\ missing = <<>> =>
    /\ errorStats.Failed = 0
    /\ errorStats.Successful = Cardinality(NotIgnored)

\* records the loop has taken so far, the one in hand included: the one
\* whose lookup is in progress, and the one at which the loop broke off
VisitedSoFar ==
  IF pc = "lookup" \/ (AfterScan /\ CapReached(missing)) THEN i + 1 ELSE i

\* those of them that are not ignored
VisitedNotIgnored == { k \in NotIgnored : k <= VisitedSoFar }

\* C39: at every point of the scan the result is no longer than the count
\* of successful lookups, that count is at most Total, and Total is the
\* number of lookups started, which is the number of records taken so far
\* that are not ignored; the result grows by one record only in a step that
\* counts one more successful lookup.
C39_ResultWithinCounters ==
  /\ [](Len(missing) <= errorStats.Successful)
  /\ [](errorStats.Successful <= errorStats.Total)
  /\ [](errorStats.Total <= Cardinality(VisitedNotIgnored))
  /\ [](errorStats.Total = Len(salts))
  /\ [](errorStats.Total = Cardinality(VisitedNotIgnored))
  /\ [][ missing' # missing =>
           /\ Len(missing') = Len(missing) + 1
           /\ errorStats'.Successful = errorStats.Successful + 1 ]_vars

\* five records taken, one of them ignored, one lookup failed, two
\* succeeded, one of these found the record missing, one is in progress
C39_Witness ==
  /\ pc = "lookup"
  /\ i = 4
  /\ Len(missing) = 1
  /\ errorStats.Successful = 2
  /\ errorStats.Failed = 1
  /\ errorStats.Total = 4

====
